---------------------------- MODULE Spec2Model ----------------------------
(***************************************************************************)
(* The quorum package of raft: MajorityConfig.CommittedIndex (sort based), *)
(* its counting reference alternativeMajorityCommittedIndex, and           *)
(* JointConfig.CommittedIndex, driven by a lookup that gains knowledge     *)
(* (Spec, and SpecMajority for one majority config on its own);            *)
(* MajorityConfig.VoteResult and JointConfig.VoteResult, driven by a votes *)
(* map that gains votes (SpecVote); MajorityConfig.Describe; raftpb's      *)
(* ConfChangeV2.JointConsensus, driven by a change that is built up        *)
(* (SpecConfChange); concurrent CommittedIndex calls sharing slicePool     *)
(* (SpecPool); the (index, final) version of CommittedIndex; and raft's    *)
(* compatStorage over a wrapped Storage (SpecStorage).                     *)
(*                                                                         *)
(* Indexes are uint64 in the source.  They are only ever compared and      *)
(* copied, never added, so the model keeps their order and represents      *)
(* math.MaxUint64 by the largest integer TLC evaluates, 2^31 - 1.          *)
(*                                                                         *)
(* The lookup holds indexes for tracked voters only, the members of        *)
(* c.Union(); a voter of one majority is a non-member for the other.       *)
(***************************************************************************)
EXTENDS Integers, Sequences, FiniteSets, TLC

\* ---------------------------------------------------------------- bounds
\* Voter IDs are 1..MaxID, acked indexes are 0..MaxIdx and math.MaxUint64.
MaxID == 3
MaxIdx == 2
\* A ConfChangeV2 carries at most MaxChanges simple changes.
MaxChanges == 3
\* Concurrent callers pass configs of up to MaxVoters voters, so that a
\* config can be larger than a pooled slice.
MaxVoters == 6

\* ------------------------------------------------------------- constants
\* math.MaxUint64 (see the module comment).
MaxUint64 == 2147483647
\* make([]uint64, 0, 5): the capacity of a slice handed out by slicePool.
PoolCap == 5
\* VotePending VoteResult = 1 + iota; VoteLost; VoteWon
VotePending == 1
VoteLost == 2
VoteWon == 3

IDs == 1..MaxID
Idx == (0..MaxIdx) \cup {MaxUint64}

VARIABLES
    c,          \* JointConfig: <<c[1], c[2]>>, two MajorityConfigs (sets of IDs)
    l,          \* mapLookuper: function from the known IDs to their index
    slicePool,  \* slicePool: the backing arrays currently held by the pool
    cr1,        \* cr1 := c[0].CommittedIndex(l), the first majority's range
    cr2,        \* cr2 := c[1].CommittedIndex(l), the second majority's range
    alt,        \* alternativeMajorityCommittedIndex(c[1], l)
    joint,      \* c.CommittedIndex(l)
    votes,      \* map[uint64]bool: function from the IDs that voted to their vote
    vr1,        \* r1 := c[0].VoteResult(votes)
    vr2,        \* r2 := c[1].VoteResult(votes)
    jointVote,  \* c.VoteResult(votes)
    altVote,    \* voteResultVia(c[0], votes, alternativeMajorityCommittedIndex)
    cc,         \* ConfChangeV2: [Transition, Changes (the sequence of their Types)]
    jc,         \* cc.JointConsensus(): [ret, panicked]
    heap,       \* the backing arrays made by slicePool.New, by identity
    pooled,     \* the identities of the arrays slicePool holds
    calls,      \* per goroutine: its position in CommittedIndex and its srt
    ret,        \* the last range returned to a goroutine, the range a fresh
                \* zeroed array gives for the same arguments, and whether
                \* the call made its own array (cap(srt) < n)
    sret,       \* what the Storage wrapped by compatStorage returned last
    cret        \* what the compatStorage method returned for it

commitVars == <<l, cr1, cr2, alt, joint>>
voteVars == <<votes, vr1, vr2, jointVote, altVote>>
changeVars == <<cc, jc>>
poolVars == <<heap, pooled, calls, ret>>
storageVars == <<sret, cret>>
vars == <<c, slicePool, commitVars, voteVars, changeVars, poolVars, storageVars>>

\* CommitRange{Definitely, Maybe}
CommitRange(d, m) == [Definitely |-> d, Maybe |-> m]

\* A slip: a missing key is reported as found, with the zero value.
IndexIgnoreOk(lk, id) ==
    IF id \in DOMAIN lk THEN [idx |-> lk[id], ok |-> TRUE]
                        ELSE [idx |-> 0, ok |-> TRUE]

\* mapLookuper.Index: (idx, ok)
Index(lk, id) ==
    IF id \in DOMAIN lk THEN [idx |-> lk[id], ok |-> TRUE]
                        ELSE [idx |-> 0, ok |-> FALSE]

\* The order in which "for id := range c" visits the members.  Go leaves it
\* unspecified; the slice is sorted after the fill, so the range returned and
\* the array put back are the same for every order, and one order stands
\* for all of them.
RECURSIVE RangeOrder(_)
RangeOrder(mc) ==
    IF mc = {} THEN <<>>
    ELSE LET id == CHOOSE x \in mc : \A y \in mc : x <= y
         IN  <<id>> \o RangeOrder(mc \ {id})

\* ------------------------------------------------------------ slicePool
\* sync.Pool{New: make([]uint64, 0, 5)}: a fresh, zeroed backing array.
New == [j \in 1..PoolCap |-> 0]

\* slicePool.Get(): any pooled array, or New() when the pool has none.
Get(pool) == IF pool = {} THEN {New} ELSE pool

\* slicePool.Put(srt)
Put(pool, arr) == pool \cup {arr}

\* ------------------------------------------- MajorityConfig.CommittedIndex
\* for id := range c { if idx, ok := l.Index(id); ok { srt[i] = idx; i-- } }
\* (i is the Go index; the sequence is 1-based)
RECURSIVE FillFromRight(_, _, _, _)
FillFromRight(order, lk, srt, i) ==
    IF order = <<>> THEN [srt |-> srt, i |-> i]
    ELSE LET r == Index(lk, Head(order))
         IN  IF r.ok
             THEN FillFromRight(Tail(order), lk, [srt EXCEPT ![i + 1] = r.idx], i - 1)
             ELSE FillFromRight(Tail(order), lk, srt, i)

\* A slip: the unused slots keep what the pooled array held.
ZeroLeftSkip(srt, j, i) == srt

\* for j := 0; j <= i; j++ { srt[j] = 0 }
RECURSIVE ZeroLeft(_, _, _)
ZeroLeft(srt, j, i) ==
    IF j > i THEN srt ELSE ZeroLeft([srt EXCEPT ![j + 1] = 0], j + 1, i)

\* Insert x into the ascending sequence s.
RECURSIVE Insert(_, _)
Insert(s, x) ==
    IF s = <<>> THEN <<x>>
    ELSE IF x < Head(s) THEN <<x>> \o s
    ELSE <<Head(s)>> \o Insert(Tail(s), x)

RECURSIVE SortAsc(_)
SortAsc(s) == IF s = <<>> THEN <<>> ELSE Insert(SortAsc(Tail(s)), Head(s))

\* A slip: the slice is left in fill order.
SortSliceUnsorted(s) == s

\* sort.Slice(srt, func(i, j int) bool { return srt[i] < srt[j] })
SortSlice(s) == SortAsc(s)

\* A slip: n/2 instead of n - (n/2 + 1).
PosHalf(n) == n \div 2

\* pos := n - (n/2 + 1)
Pos(n) == n - (n \div 2 + 1)

\* The Go indexes at which the fill loop writes srt, starting at index i.
RECURSIVE FillWrites(_, _, _)
FillWrites(order, lk, i) ==
    IF order = <<>> THEN {}
    ELSE IF Index(lk, Head(order)).ok
         THEN {i} \cup FillWrites(Tail(order), lk, i - 1)
         ELSE FillWrites(Tail(order), lk, i)

\* The Go indexes the loop "for j := 0; j <= i; j++ { srt[j] = 0 }" writes.
ZeroWrites(i) == 0..i

\* A slip: the comparison lets votesCast == pos through.
HiReadsOffByOne(n, pos, votesCast) ==
    IF votesCast >= pos THEN {pos + n - votesCast} ELSE {}

\* The Go index at which "if votesCast > pos { hi = srt[pos+n-votesCast] }"
\* reads srt, if it does.
HiReads(n, pos, votesCast) ==
    IF votesCast > pos THEN {pos + n - votesCast} ELSE {}

\* A slip: the pending voters are not accounted for.
HiNoShift(srt, n, pos, votesCast) ==
    IF votesCast > pos THEN srt[pos + 1] ELSE MaxUint64

\* A slip: the comparison is off by one.
HiOffByOne(srt, n, pos, votesCast) ==
    IF votesCast > pos + 1 THEN srt[pos + n - votesCast + 1] ELSE MaxUint64

\* hi := MaxUint64; if votesCast > pos { hi = srt[pos+n-votesCast] }
Hi(srt, n, pos, votesCast) ==
    IF votesCast > pos THEN srt[pos + n - votesCast + 1] ELSE MaxUint64

\* make([]uint64, n): a new slice of n zeros.
RECURSIVE Make(_)
Make(n) == IF n = 0 THEN <<>> ELSE Append(Make(n - 1), 0)

\* The body of CommittedIndex after slicePool.Get returned the array got:
\* the range returned and the array's contents when Put hands it back.
\* (defer slicePool.Put(srt) captures the pooled slice, so a slice allocated
\* because cap(srt) < n is not the one put back.)
CommittedIndexWith(mc, lk, got) ==
    LET n         == Cardinality(mc)
        fits      == ~(Len(got) < n)
        srt0      == IF fits THEN SubSeq(got, 1, n) ELSE Make(n)
        f         == FillFromRight(RangeOrder(mc), lk, srt0, n - 1)
        votesCast == (n - 1) - f.i
        srt       == SortSlice(ZeroLeft(f.srt, 0, f.i))
        pos       == Pos(n)
        hi        == Hi(srt, n, pos, votesCast)
    IN  [cr  |-> CommitRange(srt[pos + 1], hi),
         arr |-> IF fits THEN srt \o SubSeq(got, n + 1, Len(got)) ELSE got]

\* A slip: the empty config answers like the (index, final) version, zero.
EmptyCommitZero == CommitRange(0, 0)

\* if n == 0 { return CommitRange{MaxUint64, MaxUint64} }
EmptyCommit == CommitRange(MaxUint64, MaxUint64)

\* MajorityConfig.CommittedIndex(l): every outcome of one call against the
\* pool, as [cr |-> the range, pool |-> the pool after the deferred Put].
CommittedIndex(mc, lk, pool) ==
    IF Cardinality(mc) = 0
    THEN {[cr |-> EmptyCommit, pool |-> pool]}
    ELSE {LET r == CommittedIndexWith(mc, lk, got)
          IN  [cr |-> r.cr, pool |-> Put(pool \ {got}, r.arr)] : got \in Get(pool)}

\* ----------------------- the (index, final) version of CommittedIndex
\* if n == 0 { return 0, true }
EmptyCommitOld == [idx |-> 0, final |-> TRUE]

\* A slip: the pending voters are not accounted for.
FinalOldNoShift(srt, n, pos, votesCast) ==
    votesCast > pos /\ srt[pos + 1] = srt[pos + 1]

\* votesCast > pos && srt[pos+n-votesCast] == srt[pos]
FinalOld(srt, n, pos, votesCast) ==
    votesCast > pos /\ srt[pos + n - votesCast + 1] = srt[pos + 1]

\* The body of the (index, final) version after slicePool.Get returned the
\* array got: the same fill, zeroing and sort, then (srt[pos], final).
CommittedIndexOldWith(mc, lk, got) ==
    LET n         == Cardinality(mc)
        fits      == ~(Len(got) < n)
        srt0      == IF fits THEN SubSeq(got, 1, n) ELSE Make(n)
        f         == FillFromRight(RangeOrder(mc), lk, srt0, n - 1)
        votesCast == (n - 1) - f.i
        srt       == SortSlice(ZeroLeft(f.srt, 0, f.i))
        pos       == Pos(n)
    IN  [idx   |-> srt[pos + 1],
         final |-> FinalOld(srt, n, pos, votesCast),
         arr   |-> IF fits THEN srt \o SubSeq(got, n + 1, Len(got)) ELSE got]

\* The (index, final) version of MajorityConfig.CommittedIndex(l): every
\* outcome of one call against the pool.
CommittedIndexOld(mc, lk, pool) ==
    IF Cardinality(mc) = 0
    THEN {[idx |-> EmptyCommitOld.idx, final |-> EmptyCommitOld.final, pool |-> pool]}
    ELSE {LET r == CommittedIndexOldWith(mc, lk, got)
          IN  [idx |-> r.idx, final |-> r.final, pool |-> Put(pool \ {got}, r.arr)] :
            got \in Get(pool)}

\* ------------------------------------- alternativeMajorityCommittedIndex
\* The largest element of a set of indexes, zero for the empty set
\* ("var m uint64; for idx ... if cond && idx > m { m = idx }").
MaxOf(S) == IF S = {} THEN 0 ELSE CHOOSE x \in S : \A y \in S : y <= x

alternativeMajorityCommittedIndex(mc, lk) ==
    IF Cardinality(mc) = 0 THEN CommitRange(MaxUint64, MaxUint64)
    ELSE
    LET idToIdx      == [id \in {v \in mc : Index(lk, v).ok} |-> Index(lk, id).idx]
        pendingVotes == Cardinality(mc) - Cardinality(DOMAIN idToIdx)
        keys         == {idToIdx[id] : id \in DOMAIN idToIdx}
        \* idxToVotes[idy]++ once for every id with idy <= idToIdx[id]
        idxToVotes   == [idy \in keys |->
                            Cardinality({id \in DOMAIN idToIdx : ~(idy > idToIdx[id])})]
        q            == Cardinality(mc) \div 2 + 1
        maxQuorumIdx == MaxOf({idx \in keys : idxToVotes[idx] >= q})
        hi           == IF pendingVotes >= q THEN MaxUint64
                        ELSE MaxOf({idx \in keys : idxToVotes[idx] + pendingVotes >= q})
    IN  CommitRange(maxQuorumIdx, hi)

\* ----------------------------------------------- JointConfig.CommittedIndex
\* A slip: the larger of the two.
minLarger(a, b) == IF a > b THEN a ELSE b

\* func min(a, b uint64) uint64
min(a, b) == IF a > b THEN b ELSE a

\* JointConfig.Union: the IDs of both majorities.
Union(j) == j[1] \cup j[2]

\* A slip: Maybe is taken from the Definitely components as well.
JointRangeCopied(a, b) ==
    CommitRange(min(a.Definitely, b.Definitely), min(a.Definitely, b.Definitely))

\* CommitRange{Definitely: min(cr1.Definitely, cr2.Definitely),
\*             Maybe:      min(cr1.Maybe, cr2.Maybe)}
JointRange(a, b) ==
    CommitRange(min(a.Definitely, b.Definitely), min(a.Maybe, b.Maybe))

\* JointConfig.CommittedIndex(l): cr1 from c[0], then cr2 from c[1], then the
\* element-wise min.  Every outcome, as the two locals, the range returned
\* and the pool after both calls.
JointCommittedIndex(j, lk, pool) ==
    UNION {{[cr1  |-> r1.cr,
             cr2  |-> r2.cr,
             cr   |-> JointRange(r1.cr, r2.cr),
             pool |-> r2.pool] : r2 \in CommittedIndex(j[2], lk, r1.pool)}
           : r1 \in CommittedIndex(j[1], lk, pool)}

\* ------------------------------------------------------------- VoteResult
\* A slip: yes and no are swapped.
VotesLookupSwapped(vs) == [id \in DOMAIN vs |-> IF ~vs[id] THEN 1 ELSE 0]

\* l := mapLookuper{}; for nodeID, vote := range votes
\*     { if !vote { l[nodeID] = 0 } else { l[nodeID] = 1 } }
VotesLookup(vs) == [id \in DOMAIN vs |-> IF ~vs[id] THEN 0 ELSE 1]

\* A slip: the empty config is not special-cased.
OutcomeNoEmptyCase(mc, cr) ==
    IF cr.Definitely # cr.Maybe THEN VotePending
    ELSE IF cr.Definitely = 1 THEN VoteWon
    ELSE VoteLost

\* voteResultVia after cr := committedIndex(c, l):
\* if cr.Definitely != cr.Maybe { return VotePending }
\* if cr.Definitely == 1 || len(c) == 0 { return VoteWon }; return VoteLost
Outcome(mc, cr) ==
    IF cr.Definitely # cr.Maybe THEN VotePending
    ELSE IF cr.Definitely = 1 \/ Cardinality(mc) = 0 THEN VoteWon
    ELSE VoteLost

\* MajorityConfig.VoteResult(votes): voteResultVia with c.CommittedIndex.
\* Every outcome, as [r |-> the result, pool |-> the pool afterwards].
VoteResult(mc, vs, pool) ==
    {[r |-> Outcome(mc, x.cr), pool |-> x.pool]
        : x \in CommittedIndex(mc, VotesLookup(vs), pool)}

\* voteResultVia(c, votes, alternativeMajorityCommittedIndex)
voteResultViaAlternative(mc, vs) ==
    Outcome(mc, alternativeMajorityCommittedIndex(mc, VotesLookup(vs)))

\* A slip: the two results are not ordered before the case analysis.
CombineNoSwap(a, b) ==
    IF a = b THEN a
    ELSE IF b = VoteLost THEN VoteLost
    ELSE a

\* JointConfig.VoteResult after r1 and r2 are known:
\* if r1 == r2 { return r1 }; if r1 > r2 { r1, r2 = r2, r1 }
\* if r2 == VoteLost { return VoteLost }; return r1
Combine(a, b) ==
    IF a = b THEN a
    ELSE LET lo == IF a > b THEN b ELSE a
             hi == IF a > b THEN a ELSE b
         IN  IF hi = VoteLost THEN VoteLost ELSE lo

\* JointConfig.VoteResult(votes): r1 from c[0], then r2 from c[1].
JointVoteResult(j, vs, pool) ==
    UNION {{[r1 |-> a.r, r2 |-> b.r, r |-> Combine(a.r, b.r), pool |-> b.pool]
               : b \in VoteResult(j[2], vs, a.pool)}
           : a \in VoteResult(j[1], vs, pool)}

\* One round of vote queries: the joint config (and with it both of its
\* majorities) and the first majority through the reference.
VoteQueries(j, vs, pool) ==
    {[vr1 |-> x.r1, vr2 |-> x.r2, jointVote |-> x.r,
      altVote |-> voteResultViaAlternative(j[1], vs),
      pool |-> x.pool] : x \in JointVoteResult(j, vs, pool)}

\* -------------------------------------------- ConfChangeV2.JointConsensus
\* The Type of a ConfChangeSimple: the four the switch names, and any other.
ChangeTypes ==
    {"ConfChangeAddNode", "ConfChangeRemoveNode",
     "ConfChangeAddLearnerNode", "ConfChangeUpdateNode", "other"}

\* The Transition of a ConfChangeV2: Auto, and the two that are not.
Transitions ==
    {"ConfChangeTransitionAuto", "ConfChangeTransitionJointImplicit",
     "ConfChangeTransitionJointExplicit"}

\* for _, c := range cc.Changes { switch c.Type { ... } }; return true
RECURSIVE ChangesLoop(_, _)
ChangesLoop(changes, changed) ==
    IF changes = <<>> THEN [ret |-> TRUE, panicked |-> FALSE]
    ELSE IF Head(changes) \in {"ConfChangeAddNode", "ConfChangeRemoveNode"}
         THEN IF changed THEN [ret |-> FALSE, panicked |-> FALSE]
              ELSE ChangesLoop(Tail(changes), TRUE)
    ELSE IF Head(changes) \in {"ConfChangeAddLearnerNode", "ConfChangeUpdateNode"}
         THEN ChangesLoop(Tail(changes), changed)
    ELSE [ret |-> FALSE, panicked |-> TRUE]

\* func (cc *ConfChangeV2) JointConsensus() bool
JointConsensus(ch) ==
    IF ch.Transition # "ConfChangeTransitionAuto"
    THEN [ret |-> TRUE, panicked |-> FALSE]
    ELSE ChangesLoop(ch.Changes, FALSE)

\* ------------------------------------------------- MajorityConfig.Describe
\* The less function of the first sort.Slice: by idx, ties by id.
InfoLess(lk, a, b) ==
    IF Index(lk, a).idx = Index(lk, b).idx THEN a < b
    ELSE Index(lk, a).idx < Index(lk, b).idx

\* info after "Sort by index": the ids of the config in that order.
RECURSIVE SortByIndex(_, _)
SortByIndex(mc, lk) ==
    IF mc = {} THEN <<>>
    ELSE LET m == CHOOSE x \in mc : \A y \in mc \ {x} : InfoLess(lk, x, y)
         IN  <<m>> \o SortByIndex(mc \ {m}, lk)

\* "Populate .bar": for i := range info
\*     { if i > 0 && info[i-1].idx < info[i].idx { info[i].bar = i } }
\* As a function from the id to its bar (zero where it is not set); i is the
\* Go index, the sequence is 1-based.
DescribeBars(mc, lk) ==
    LET info == SortByIndex(mc, lk)
    IN  [id \in mc |->
            LET i == (CHOOSE k \in DOMAIN info : info[k] = id) - 1
            IN  IF i > 0 /\ Index(lk, info[i]).idx < Index(lk, info[i + 1]).idx
                THEN i ELSE 0]

\* ------------------------------------------------------------ the driver
\* One round of queries against the lookup lk: the joint config (and with it
\* both of its majorities) and the reference for the first majority.
Queries(j, lk, pool) ==
    {[cr1 |-> rj.cr1, cr2 |-> rj.cr2, joint |-> rj.cr,
      alt |-> alternativeMajorityCommittedIndex(j[1], lk),
      pool |-> rj.pool] : rj \in JointCommittedIndex(j, lk, pool)}

\* Two goroutines call MajorityConfig.CommittedIndex concurrently.
Goroutines == {"g1", "g2"}

\* The identities of backing arrays: a goroutine holds at most one, and New
\* runs only when the pool holds none, so there are never more arrays than
\* goroutines.
Bufs == 1..Cardinality(Goroutines)

\* The configs the goroutines pass: the empty config, and the first k
\* voters for the sizes around the capacity of a pooled array, one below
\* it (a reused array keeps a stale slot) up to MaxVoters (above it).
PoolConfigs == {{}} \cup {1..k : k \in (PoolCap - 1)..MaxVoters}

\* The lookups over such a config, one for every number of members at the
\* smallest index, at the largest index and unknown: the first a voters
\* are at 0, the next b at MaxIdx, the others are unknown.
PoolLookups(mc) ==
    UNION {{[id \in 1..(a + b) |-> IF id <= a THEN 0 ELSE MaxIdx] :
                b \in 0..(Cardinality(mc) - a)} : a \in 0..Cardinality(mc)}

\* A goroutine outside CommittedIndex.
Idle == [pc |-> "idle", srt |-> 0]

\* No method of the compatStorage has been called.
NoCall == [meth |-> "none"]

EmptyLookup == [id \in {} |-> 0]

\* votes := map[uint64]bool{}
EmptyVotes == [id \in {} |-> FALSE]

\* ConfChangeV2{}: the zero value, Transition Auto and no Changes.
EmptyChange == [Transition |-> "ConfChangeTransitionAuto", Changes |-> <<>>]

\* Nothing is known, nobody has voted, the change is empty; each query has
\* been made once.
Init ==
    /\ c \in (SUBSET IDs) \X (SUBSET IDs)
    /\ l = EmptyLookup
    /\ votes = EmptyVotes
    /\ cc = EmptyChange
    /\ jc = JointConsensus(cc)
    /\ heap = [b \in Bufs |-> <<>>]
    /\ pooled = {}
    /\ calls = [g \in Goroutines |-> Idle]
    /\ ret = [cr |-> EmptyCommit, fresh |-> EmptyCommit, made |-> FALSE]
    /\ sret = NoCall
    /\ cret = NoCall
    /\ \E q \in Queries(c, l, {}) :
          /\ cr1 = q.cr1 /\ cr2 = q.cr2 /\ alt = q.alt /\ joint = q.joint
          /\ \E v \in VoteQueries(c, votes, q.pool) :
                /\ slicePool = v.pool
                /\ vr1 = v.vr1 /\ vr2 = v.vr2
                /\ jointVote = v.jointVote /\ altVote = v.altVote

Requery(lk) ==
    \E q \in Queries(c, lk, slicePool) :
        /\ slicePool' = q.pool
        /\ cr1' = q.cr1 /\ cr2' = q.cr2 /\ alt' = q.alt /\ joint' = q.joint

\* A tracked voter (one of c.Union()) that was unknown reports index k.
Ack(id, k) ==
    /\ id \in Union(c)
    /\ id \notin DOMAIN l
    /\ l' = [v \in DOMAIN l \cup {id} |-> IF v = id THEN k ELSE l[v]]
    /\ Requery(l')
    /\ UNCHANGED <<c, voteVars, changeVars, poolVars, storageVars>>

\* A known voter's index grows to k.
Advance(id, k) ==
    /\ id \in DOMAIN l
    /\ k > l[id]
    /\ l' = [l EXCEPT ![id] = k]
    /\ Requery(l')
    /\ UNCHANGED <<c, voteVars, changeVars, poolVars, storageVars>>

\* sync.Pool drops what it holds (at a garbage collection).
PoolGC ==
    /\ slicePool # {}
    /\ slicePool' = {}
    /\ UNCHANGED <<c, commitVars, voteVars, changeVars, poolVars, storageVars>>

Next ==
    \/ \E id \in IDs, k \in Idx : Ack(id, k)
    \/ \E id \in IDs, k \in Idx : Advance(id, k)
    \/ PoolGC

Spec == Init /\ [][Next]_vars

\* A majority config on its own: the second side of the joint config is
\* empty, and the lookup gains knowledge about the voters of the first.
InitMajority == Init /\ c[2] = {}

SpecMajority == InitMajority /\ [][Next]_vars

\* A voter that has not voted yet (a member of the config or not) votes v.
Vote(id, v) ==
    /\ id \notin DOMAIN votes
    /\ votes' = [w \in DOMAIN votes \cup {id} |-> IF w = id THEN v ELSE votes[w]]
    /\ \E q \in VoteQueries(c, votes', slicePool) :
          /\ slicePool' = q.pool
          /\ vr1' = q.vr1 /\ vr2' = q.vr2
          /\ jointVote' = q.jointVote /\ altVote' = q.altVote
    /\ UNCHANGED <<c, commitVars, changeVars, poolVars, storageVars>>

NextVote ==
    \/ \E id \in IDs, v \in BOOLEAN : Vote(id, v)
    \/ PoolGC

SpecVote == Init /\ [][NextVote]_vars

\* One more simple change of type t is appended to the change.
AppendChange(t) ==
    /\ Len(cc.Changes) < MaxChanges
    /\ cc' = [cc EXCEPT !.Changes = Append(@, t)]
    /\ jc' = JointConsensus(cc')
    /\ UNCHANGED <<c, slicePool, commitVars, voteVars, poolVars, storageVars>>

\* The change's Transition is set to t.
SetTransition(t) ==
    /\ cc.Transition # t
    /\ cc' = [cc EXCEPT !.Transition = t]
    /\ jc' = JointConsensus(cc')
    /\ UNCHANGED <<c, slicePool, commitVars, voteVars, poolVars, storageVars>>

NextConfChange ==
    \/ \E t \in ChangeTypes : AppendChange(t)
    \/ \E t \in Transitions : SetTransition(t)

SpecConfChange == Init /\ [][NextConfChange]_vars

\* -------------------------------------- concurrent calls sharing slicePool
\* slicePool.Get() takes the array it returns out of the pool.
Take(pool, b) == pool \ {b}

\* The arrays no goroutine holds and the pool does not hold.
FreeBufs == {b \in Bufs : heap[b] = <<>>}

\* Goroutine g calls CommittedIndex on the empty config, which returns
\* before it touches the pool.
CallEmpty(g) ==
    /\ calls[g].pc = "idle"
    /\ ret' = [cr |-> EmptyCommit, fresh |-> EmptyCommit, made |-> FALSE]
    /\ UNCHANGED <<heap, pooled, calls>>
    /\ UNCHANGED <<c, slicePool, commitVars, voteVars, changeVars, storageVars>>

\* Goroutine g calls CommittedIndex on a nonempty config, up to
\* slicePool.Get: Get returns a pooled array with what its last user left
\* in it, or, when the pool holds none, New makes one.
Begin(g) ==
    /\ calls[g].pc = "idle"
    /\ \/ \E b \in pooled :
            /\ pooled' = Take(pooled, b)
            /\ calls' = [calls EXCEPT ![g] = [pc |-> "body", srt |-> b]]
            /\ heap' = heap
       \/ /\ pooled = {}
          /\ \E b \in FreeBufs :
                /\ \A b2 \in FreeBufs : b <= b2
                /\ heap' = [heap EXCEPT ![b] = New]
                /\ calls' = [calls EXCEPT ![g] = [pc |-> "body", srt |-> b]]
          /\ pooled' = pooled
    /\ ret' = ret
    /\ UNCHANGED <<c, slicePool, commitVars, voteVars, changeVars, storageVars>>

\* Goroutine g runs the rest of CommittedIndex, on the array it got (or on
\* a new one when cap(srt) < n), returns, and the deferred slicePool.Put
\* hands the array it got back to the pool. Nothing before this point
\* depends on which nonempty config mc and which lookup lk the call was
\* made with, so the arguments are drawn here, where they are first used.
Finish(g, mc, lk) ==
    /\ calls[g].pc = "body"
    /\ mc # {}
    /\ DOMAIN lk \subseteq mc
    /\ LET r == CommittedIndexWith(mc, lk, heap[calls[g].srt])
       IN  /\ heap' = [heap EXCEPT ![calls[g].srt] = r.arr]
           /\ ret' = [cr |-> r.cr,
                      fresh |-> CommittedIndexWith(mc, lk, New).cr,
                      made |-> PoolCap < Cardinality(mc)]
    /\ pooled' = Put(pooled, calls[g].srt)
    /\ calls' = [calls EXCEPT ![g] = Idle]
    /\ UNCHANGED <<c, slicePool, commitVars, voteVars, changeVars, storageVars>>

\* sync.Pool drops the arrays it holds (at a garbage collection).
PoolDrop ==
    /\ pooled # {}
    /\ heap' = [b \in Bufs |-> IF b \in pooled THEN <<>> ELSE heap[b]]
    /\ pooled' = {}
    /\ UNCHANGED <<calls, ret>>
    /\ UNCHANGED <<c, slicePool, commitVars, voteVars, changeVars, storageVars>>

NextPool ==
    \/ \E g \in Goroutines : CallEmpty(g)
    \/ \E g \in Goroutines : Begin(g)
    \/ \E g \in Goroutines, mc \in PoolConfigs, lk \in PoolLookups(1..MaxVoters) :
          Finish(g, mc, lk)
    \/ PoolDrop

\* No joint config is involved: the goroutines bring their own configs.
InitPool == Init /\ c = <<{}, {}>>

SpecPool == InitPool /\ [][NextPool]_vars

\* ---------------------------------------------------------- compatStorage
\* The error values a Storage returns: nil, the error of a snapshot that is
\* not ready, and any other error.
Errors == {"nil", "ErrSnapshotTemporarilyUnavailable", "err"}

\* pb.HardState values (terms are drawn from the same small range as
\* indexes; Vote is zero or a voter).
HardStates == [Term : 0..MaxIdx, Vote : {0} \cup IDs, Commit : 0..MaxIdx]

\* pb.ConfState values: a voter is not a learner.
ConfStates ==
    UNION {{[Nodes |-> ns, Learners |-> ls] : ls \in SUBSET (IDs \ ns)} :
                ns \in SUBSET IDs}

\* pb.Snapshot values, with no data or one byte of data.
Snapshots ==
    [Data : {<<>>, <<1>>},
     Metadata : [ConfState : ConfStates, Index : 0..MaxIdx, Term : 0..MaxIdx]]

\* []pb.Entry values: no entry or one entry.
EntrySlices == {<<>>} \cup {<<[Index |-> i, Term |-> t]>> : i \in 0..MaxIdx, t \in 0..MaxIdx}

\* func (hs *HardState) V2() HardStateV2
HardStateV2(hs) == [Term |-> hs.Term, Commit |-> hs.Commit, MaxConfIndex |-> 0]

\* func (cs *ConfState) V2() ConfStateV2
ConfStateV2(cs) == [Nodes |-> cs.Nodes, Learners |-> cs.Learners, Joint |-> "nil"]

\* func (sm *SnapshotMetadata) V2() SnapshotMetadataV2
SnapshotMetadataV2(sm) ==
    [ConfState |-> ConfStateV2(sm.ConfState), Index |-> sm.Index, Term |-> sm.Term]

\* func (snap *Snapshot) V2() SnapshotV2
SnapshotV2(snap) == [Data |-> snap.Data, Metadata |-> SnapshotMetadataV2(snap.Metadata)]

\* pb.HardState{}, pb.ConfState{}, pb.Snapshot{}: what a Storage returns
\* next to an error.
ZeroHardState == [Term |-> 0, Vote |-> 0, Commit |-> 0]
ZeroConfState == [Nodes |-> {}, Learners |-> {}]
ZeroSnapshot ==
    [Data |-> <<>>, Metadata |-> [ConfState |-> ZeroConfState, Index |-> 0, Term |-> 0]]

\* pb.HardStateV2{}, pb.ConfStateV2{}, pb.SnapshotV2{}: the zero values.
ZeroHardStateV2 == [Term |-> 0, Commit |-> 0, MaxConfIndex |-> 0]
ZeroConfStateV2 == [Nodes |-> {}, Learners |-> {}, Joint |-> "nil"]
ZeroSnapshotV2 ==
    [Data |-> <<>>,
     Metadata |-> [ConfState |-> ZeroConfStateV2, Index |-> 0, Term |-> 0]]

\* compatStorage.InitialState: the wrapped Storage returns (hs, cs, err).
InitialState(hs, cs, err) ==
    /\ sret' = [meth |-> "InitialState", hs |-> hs, cs |-> cs, err |-> err]
    /\ cret' = IF err # "nil"
               THEN [meth |-> "InitialState", hs |-> ZeroHardStateV2,
                     cs |-> ZeroConfStateV2, err |-> err]
               ELSE [meth |-> "InitialState", hs |-> HardStateV2(hs),
                     cs |-> ConfStateV2(cs), err |-> "nil"]
    /\ UNCHANGED <<c, slicePool, commitVars, voteVars, changeVars, poolVars>>

\* compatStorage.Entries: the wrapped Storage returns (ents, err).
Entries(ents, err) ==
    /\ sret' = [meth |-> "Entries", val |-> ents, err |-> err]
    /\ cret' = [meth |-> "Entries", val |-> ents, err |-> err]
    /\ UNCHANGED <<c, slicePool, commitVars, voteVars, changeVars, poolVars>>

\* compatStorage.Term: the wrapped Storage returns (t, err).
Term(t, err) ==
    /\ sret' = [meth |-> "Term", val |-> t, err |-> err]
    /\ cret' = [meth |-> "Term", val |-> t, err |-> err]
    /\ UNCHANGED <<c, slicePool, commitVars, voteVars, changeVars, poolVars>>

\* compatStorage.LastIndex: the wrapped Storage returns (i, err).
LastIndex(i, err) ==
    /\ sret' = [meth |-> "LastIndex", val |-> i, err |-> err]
    /\ cret' = [meth |-> "LastIndex", val |-> i, err |-> err]
    /\ UNCHANGED <<c, slicePool, commitVars, voteVars, changeVars, poolVars>>

\* compatStorage.FirstIndex: the wrapped Storage returns (i, err).
FirstIndex(i, err) ==
    /\ sret' = [meth |-> "FirstIndex", val |-> i, err |-> err]
    /\ cret' = [meth |-> "FirstIndex", val |-> i, err |-> err]
    /\ UNCHANGED <<c, slicePool, commitVars, voteVars, changeVars, poolVars>>

\* compatStorage.Snapshot: the wrapped Storage returns (snap, err).
\* if err != nil { return pb.SnapshotV2{}, nil }
Snapshot(snap, err) ==
    /\ sret' = [meth |-> "Snapshot", val |-> snap, err |-> err]
    /\ cret' = IF err # "nil"
               THEN [meth |-> "Snapshot", val |-> ZeroSnapshotV2, err |-> "nil"]
               ELSE [meth |-> "Snapshot", val |-> SnapshotV2(snap), err |-> "nil"]
    /\ UNCHANGED <<c, slicePool, commitVars, voteVars, changeVars, poolVars>>

NextStorage ==
    \/ \E hs \in HardStates, cs \in ConfStates : InitialState(hs, cs, "nil")
    \/ \E err \in Errors \ {"nil"} : InitialState(ZeroHardState, ZeroConfState, err)
    \/ \E ents \in EntrySlices, err \in Errors : Entries(ents, err)
    \/ \E t \in 0..MaxIdx, err \in Errors : Term(t, err)
    \/ \E i \in 0..MaxIdx, err \in Errors : LastIndex(i, err)
    \/ \E i \in 0..MaxIdx, err \in Errors : FirstIndex(i, err)
    \/ \E snap \in Snapshots : Snapshot(snap, "nil")
    \/ \E err \in Errors \ {"nil"} : Snapshot(ZeroSnapshot, err)

\* The storage is used without a joint config.
InitStorage == Init /\ c = <<{}, {}>>

SpecStorage == InitStorage /\ [][NextStorage]_vars

\* ----------------------------------------------------------- properties
\* The members of mc with a known ack.
Known(mc, lk) == mc \cap DOMAIN lk

\* A range is final when its two components agree.
Final(cr) == cr.Definitely = cr.Maybe

\* This step makes the unknown voter id known and changes no known voter.
BecomesKnown(id) ==
    /\ id \notin DOMAIN l
    /\ DOMAIN l' = DOMAIN l \cup {id}
    /\ \A v \in DOMAIN l : l'[v] = l[v]

\* This step strictly raises the index of the known voter id, nothing else.
IndexGrows(id) ==
    /\ id \in DOMAIN l
    /\ DOMAIN l' = DOMAIN l
    /\ l'[id] > l[id]
    /\ \A v \in DOMAIN l \ {id} : l'[v] = l[v]

\* C1: every range returned by MajorityConfig.CommittedIndex (for either
\* majority, the empty one included) and by JointConfig.CommittedIndex has
\* Definitely <= Maybe.
C1_RangeWellFormed ==
    /\ cr1.Definitely <= cr1.Maybe
    /\ cr2.Definitely <= cr2.Maybe
    /\ joint.Definitely <= joint.Maybe

\* A majority of three with two different acks known and one pending: the
\* range is open on both sides, and so is the joint range.
C1_Witness ==
    /\ Cardinality(c[1]) = 3 /\ Cardinality(Known(c[1], l)) = 2
    /\ 0 < cr1.Definitely /\ cr1.Definitely < cr1.Maybe /\ cr1.Maybe < MaxUint64
    /\ c[2] # {} /\ joint.Definitely < joint.Maybe

\* C2: the sort-based CommittedIndex returns exactly the range of the
\* counting reference alternativeMajorityCommittedIndex, both components.
C2_EqualsReference == cr1 = alt

\* Both computed a nontrivial, still open range for a partly known config.
C2_Witness ==
    /\ Cardinality(c[1]) = 3 /\ Cardinality(Known(c[1], l)) = 2
    /\ 0 < alt.Definitely /\ alt.Definitely < alt.Maybe /\ alt.Maybe < MaxUint64
    /\ cr1 = alt

\* The members of mc counted as acking index i: everyone for index 0, the
\* known voters with an ack of at least i otherwise.
AckedAtLeast(mc, lk, i) ==
    IF i = 0 THEN mc ELSE {v \in Known(mc, lk) : lk[v] >= i}

HasQuorum(mc, lk, i) ==
    Cardinality(AckedAtLeast(mc, lk, i)) >= Cardinality(mc) \div 2 + 1

LargestQuorumIndex(mc, lk, d) ==
    /\ HasQuorum(mc, lk, d)
    /\ \A i \in Idx : HasQuorum(mc, lk, i) => i <= d

\* C3: for a nonempty config of n voters, Definitely is the largest index
\* acked by at least n/2+1 members (unknown voters count for index 0 only;
\* equal acks count once per voter).
C3_DefinitelyIsLargestQuorumIndex ==
    /\ c[1] # {} => LargestQuorumIndex(c[1], l, cr1.Definitely)
    /\ c[2] # {} => LargestQuorumIndex(c[2], l, cr2.Definitely)

\* Two of three voters acked the same positive index and it is committed.
C3_Witness ==
    /\ Cardinality(c[1]) = 3
    /\ \E v, w \in Known(c[1], l) :
          /\ v # w /\ l[v] = l[w] /\ l[v] > 0
          /\ cr1.Definitely = l[v]
          /\ \A u \in Known(c[1], l) \ {v, w} : l[u] # l[v]

\* The lookup that agrees with lk on known voters and maps every unknown
\* member of mc to the maximum index.
Optimistic(mc, lk) ==
    [v \in DOMAIN lk \cup mc |-> IF v \in DOMAIN lk THEN lk[v] ELSE MaxUint64]

\* C4: for a nonempty config, Maybe equals the Definitely that CommittedIndex
\* returns once every unknown member is taken to have acked 2^64-1.
C4_MaybeIsOptimisticDefinitely ==
    /\ c[1] # {} =>
         cr1.Maybe = CommittedIndexWith(c[1], Optimistic(c[1], l), New).cr.Definitely
    /\ c[2] # {} =>
         cr2.Maybe = CommittedIndexWith(c[2], Optimistic(c[2], l), New).cr.Definitely

\* A pending voter remains, yet Maybe is bounded and above Definitely.
C4_Witness ==
    /\ Cardinality(c[1]) = 3 /\ Cardinality(Known(c[1], l)) = 2
    /\ cr1.Definitely < cr1.Maybe /\ cr1.Maybe < MaxUint64

\* C5: when one unknown member of the config becomes known, with any ack,
\* Definitely does not decrease and Maybe does not increase.
C5_KnowledgeGainMonotone ==
    [][/\ (\E id \in c[1] : BecomesKnown(id)) =>
            /\ cr1'.Definitely >= cr1.Definitely
            /\ cr1'.Maybe <= cr1.Maybe
       /\ (\E id \in c[2] : BecomesKnown(id)) =>
            /\ cr2'.Definitely >= cr2.Definitely
            /\ cr2'.Maybe <= cr2.Maybe]_vars

\* Every member of a three voter config has reported, with three different
\* acks, so that both ends of the range have moved on the way.
C5_Witness ==
    /\ Cardinality(c[1]) = 3 /\ Known(c[1], l) = c[1]
    /\ \A v, w \in c[1] : v # w => l[v] # l[w]
    /\ 0 < cr1.Definitely /\ cr1.Maybe < MaxUint64

\* C6 as stated: when a known member's index strictly grows, Definitely does
\* not decrease and Maybe does not increase.
C6_Original ==
    [][(\E id \in c[1] : IndexGrows(id)) =>
            /\ cr1'.Definitely >= cr1.Definitely
            /\ cr1'.Maybe <= cr1.Maybe]_vars

\* C6 amended: when a known member's index strictly grows, neither
\* Definitely nor Maybe decreases.
C6_IndexGrowthMonotone ==
    [][/\ (\E id \in c[1] : IndexGrows(id)) =>
            /\ cr1'.Definitely >= cr1.Definitely
            /\ cr1'.Maybe >= cr1.Maybe
       /\ (\E id \in c[2] : IndexGrows(id)) =>
            /\ cr2'.Definitely >= cr2.Definitely
            /\ cr2'.Maybe >= cr2.Maybe]_vars

\* A fully known config whose committed index is above the smallest index
\* a voter can grow from: some known voter's index has grown or can.
C6_Witness ==
    /\ Cardinality(c[1]) >= 2 /\ Known(c[1], l) = c[1]
    /\ cr1.Definitely > 0 /\ cr1.Definitely < MaxUint64
    /\ \E v \in c[1] : l[v] > cr1.Definitely

\* C7: when every member of the config has a known ack the range is final.
C7_FinalWhenAllKnown ==
    /\ Known(c[1], l) = c[1] => Final(cr1)
    /\ Known(c[2], l) = c[2] => Final(cr2)

\* Three voters, all known, all different: the middle one is committed.
C7_Witness ==
    /\ Cardinality(c[1]) = 3 /\ Known(c[1], l) = c[1]
    /\ \A v, w \in c[1] : v # w => l[v] # l[w]
    /\ Final(cr1) /\ cr1.Definitely > 0

\* C8: once the range is final while members are still unknown, it stays the
\* same final range when an unknown member becomes known with any ack.
C8_FinalStaysFinal ==
    [][/\ (Final(cr1) /\ \E id \in c[1] : BecomesKnown(id)) => cr1' = cr1
       /\ (Final(cr2) /\ \E id \in c[2] : BecomesKnown(id)) => cr2' = cr2]_vars

\* Final at a positive index with a member still to report.
C8_Witness ==
    /\ Cardinality(c[1]) = 3 /\ Cardinality(Known(c[1], l)) = 2
    /\ Final(cr1) /\ cr1.Definitely > 0

IsLeast(x, a, b) == x \in {a, b} /\ x <= a /\ x <= b

\* C10: the joint range is the component-wise smaller of the two majorities'
\* ranges, whether or not they overlap.
C10_JointIsMin ==
    /\ IsLeast(joint.Definitely, cr1.Definitely, cr2.Definitely)
    /\ IsLeast(joint.Maybe, cr1.Maybe, cr2.Maybe)

\* Overlapping majorities where Definitely comes from one side and Maybe
\* from the other.
C10_Witness ==
    /\ c[1] \cap c[2] # {} /\ c[1] # c[2]
    /\ cr1.Definitely < cr2.Definitely /\ cr2.Maybe < cr1.Maybe
    /\ joint = CommitRange(cr1.Definitely, cr2.Maybe)

\* C11: with an empty first majority the joint range is the second
\* majority's range: the empty side is neutral.
C11_EmptySideNeutral == c[1] = {} => joint = cr2

\* The empty majority joined with three voters whose range is still open.
C11_Witness ==
    /\ c[1] = {} /\ Cardinality(c[2]) = 3
    /\ 0 < cr2.Definitely /\ cr2.Definitely < cr2.Maybe
    /\ joint = cr2

\* The members of mc whose vote in vs is v.
Voted(mc, vs, v) == {id \in mc \cap DOMAIN vs : vs[id] = v}

\* n/2 + 1 for a config of n voters.
Quorum(mc) == Cardinality(mc) \div 2 + 1

\* C12: a nonempty config returns VoteWon exactly when at least n/2+1 of its
\* members voted yes.
C12_WonIffYesQuorum ==
    /\ c[1] # {} => (vr1 = VoteWon <=> Cardinality(Voted(c[1], votes, TRUE)) >= Quorum(c[1]))
    /\ c[2] # {} => (vr2 = VoteWon <=> Cardinality(Voted(c[2], votes, TRUE)) >= Quorum(c[2]))

\* Two yes votes out of three, the third member has not voted.
C12_Witness ==
    /\ Cardinality(c[1]) = 3
    /\ Cardinality(Voted(c[1], votes, TRUE)) = 2
    /\ c[1] \ DOMAIN votes # {}
    /\ vr1 = VoteWon

\* C13 as stated: a nonempty config returns VoteLost exactly when at least
\* n/2+1 of its members voted no, and VotePending when neither yes nor no
\* has n/2+1 votes.
C13_Original ==
    c[1] # {} =>
        LET yes == Cardinality(Voted(c[1], votes, TRUE))
            no  == Cardinality(Voted(c[1], votes, FALSE))
        IN  /\ vr1 = VoteLost <=> no >= Quorum(c[1])
            /\ (yes < Quorum(c[1]) /\ no < Quorum(c[1])) => vr1 = VotePending

\* C14: the empty config wins every vote, whatever the votes map holds, and
\* the joint config with an empty first side votes as its second side does.
C14_EmptyWins ==
    /\ c[1] = {} => (vr1 = VoteWon /\ jointVote = vr2)
    /\ c[2] = {} => vr2 = VoteWon

\* The empty side next to a majority that lost, with only no votes cast.
C14_Witness ==
    /\ c[1] = {} /\ c[2] # {}
    /\ DOMAIN votes # {} /\ \A id \in DOMAIN votes : ~votes[id]
    /\ vr1 = VoteWon /\ vr2 = VoteLost /\ jointVote = VoteLost

\* The range the primary computes for mc and lk with a fresh array.
RangeOf(mc, lk) ==
    IF mc = {} THEN EmptyCommit ELSE CommittedIndexWith(mc, lk, New).cr

\* The votes map vs without the entries of non-members of mc.
OnlyMembers(mc, vs) == [id \in mc \cap DOMAIN vs |-> vs[id]]

\* C15: the result depends on the members' votes only (dropping the entries
\* of non-members changes nothing), and a member absent from the map has
\* not voted: without a no vote from a member the vote is not lost.
C15_OnlyMembersCount ==
    /\ vr1 = Outcome(c[1], RangeOf(c[1], VotesLookup(OnlyMembers(c[1], votes))))
    /\ vr2 = Outcome(c[2], RangeOf(c[2], VotesLookup(OnlyMembers(c[2], votes))))
    /\ (c[1] # {} /\ Voted(c[1], votes, FALSE) = {}) => vr1 # VoteLost
    /\ (c[2] # {} /\ Voted(c[2], votes, FALSE) = {}) => vr2 # VoteLost

\* Non-members voted no, one member voted yes, another member is absent.
C15_Witness ==
    /\ \E id \in DOMAIN votes \ c[1] : ~votes[id]
    /\ Voted(c[1], votes, TRUE) # {}
    /\ c[1] \ DOMAIN votes # {}
    /\ vr1 = VotePending

\* C16: the joint vote is won iff both sides are won, lost iff a side is
\* lost, pending otherwise, and the same with the sides swapped.
C16_JointVote ==
    /\ jointVote = VoteWon <=> (vr1 = VoteWon /\ vr2 = VoteWon)
    /\ jointVote = VoteLost <=> (vr1 = VoteLost \/ vr2 = VoteLost)
    /\ jointVote \in {VoteWon, VoteLost, VotePending}
    /\ jointVote = Combine(vr2, vr1)

\* Overlapping majorities: the first has won, the second is pending, and so
\* is the joint vote.
C16_Witness ==
    /\ c[1] \cap c[2] # {} /\ c[1] # c[2]
    /\ vr1 = VoteWon /\ vr2 = VotePending /\ jointVote = VotePending

\* C17: VoteResult is the mapping of the range computed for the lookup
\* yes -> 1, no -> 0, absent -> unknown (pending if Definitely # Maybe, won
\* if Definitely = 1 or the config is empty, lost otherwise), and it is the
\* same through the reference.
C17_VoteCommitDuality ==
    LET lk == [id \in DOMAIN votes |-> IF votes[id] THEN 1 ELSE 0]
        cr == RangeOf(c[1], lk)
    IN  /\ vr1 = IF cr.Definitely # cr.Maybe THEN VotePending
                 ELSE IF cr.Definitely = 1 \/ c[1] = {} THEN VoteWon
                 ELSE VoteLost
        /\ altVote = vr1

\* A nonempty config won, though one of its members voted no.
C17_Witness ==
    /\ Cardinality(c[1]) = 3
    /\ Voted(c[1], votes, FALSE) # {}
    /\ vr1 = VoteWon /\ altVote = VoteWon

\* C18 as stated: in Describe two voters of the config with equal index get
\* equal bars, and a voter's bar is the number of voters of the config with
\* a strictly smaller index.
C18_Original ==
    LET bar == DescribeBars(c[1], l)
    IN  \A v \in Known(c[1], l) :
            /\ \A w \in Known(c[1], l) : l[v] = l[w] => bar[v] = bar[w]
            /\ bar[v] = Cardinality({u \in c[1] : Index(l, u).idx < l[v]})

\* The number of ConfChangeAddNode / ConfChangeRemoveNode among the changes.
VoterChanges(ch) ==
    Cardinality({i \in DOMAIN ch.Changes :
                    ch.Changes[i] \in {"ConfChangeAddNode", "ConfChangeRemoveNode"}})

\* C19 as stated: JointConsensus returns true exactly when Transition is not
\* Auto or more than one change adds or removes a voter.
C19_Original ==
    ~jc.panicked =>
        (jc.ret <=> (cc.Transition # "ConfChangeTransitionAuto" \/ VoterChanges(cc) > 1))

\* C20 as stated: when the joint range is final, both sides' ranges are.
C20_Original == Final(joint) => (Final(cr1) /\ Final(cr2))

\* C20 amended: when the joint range is final, one side is final at the
\* joint value and the other side's Definitely is not below it.
C20_JointFinalNeedsOneSide ==
    Final(joint) =>
        \/ Final(cr1) /\ cr1.Definitely = joint.Definitely
                      /\ cr2.Definitely >= joint.Definitely
        \/ Final(cr2) /\ cr2.Definitely = joint.Definitely
                      /\ cr1.Definitely >= joint.Definitely

\* The joint range is final at a positive index while the second side, with
\* a member still to report, is not.
C20_Witness ==
    /\ c[1] # {} /\ c[2] \ DOMAIN l # {}
    /\ Final(joint) /\ joint.Definitely > 0
    /\ Final(cr1) /\ ~Final(cr2)

\* The goroutines inside CommittedIndex, between Get and the deferred Put.
InFlight == {g \in Goroutines : calls[g].pc = "body"}

\* C21: whatever the pool handed out (a used array with stale contents, a
\* new array, an array too small for the config) and however the calls of
\* the goroutines interleave, a call returns the range a fresh zeroed array
\* gives, and no array is held by two calls in flight, nor by a call in
\* flight and the pool.
C21_PoolDoesNotMatter ==
    /\ ret.cr = ret.fresh
    /\ \A g, h \in InFlight : g # h => calls[g].srt # calls[h].srt
    /\ \A g \in InFlight : calls[g].srt \notin pooled

\* A call on a config larger than a pooled array returned a range between
\* the smallest and the largest index, while the other call is in flight
\* and the pool holds an array with stale data.
C21_Witness ==
    /\ ret.made /\ InFlight # {}
    /\ \E b \in pooled : \E j \in 1..PoolCap : heap[b][j] # 0
    /\ ret.cr.Definitely = 0 /\ ret.cr.Maybe = MaxIdx

\* Every access to srt[:n] in mc.CommittedIndex(lk) is in bounds.
InBounds(mc, lk) ==
    LET n         == Cardinality(mc)
        i         == FillFromRight(RangeOrder(mc), lk, Make(n), n - 1).i
        votesCast == (n - 1) - i
        pos       == Pos(n)
    IN  /\ FillWrites(RangeOrder(mc), lk, n - 1) \subseteq 0..(n - 1)
        /\ i \in (0 - 1)..(n - 1)
        /\ ZeroWrites(i) \subseteq 0..(n - 1)
        /\ votesCast \in 0..n
        /\ pos \in 0..(n - 1)
        /\ HiReads(n, pos, votesCast) \subseteq 0..(n - 1)

\* C22: on a nonempty config of n voters every slice access of
\* CommittedIndex is in bounds: the fill index stays in [-1, n-1],
\* 0 <= votesCast <= n, 0 <= pos < n, and srt[pos+n-votesCast] is read only
\* when pos + n - votesCast < n.
C22_AccessesInBounds ==
    /\ c[1] # {} => InBounds(c[1], l)
    /\ c[2] # {} => InBounds(c[2], l)

\* Two of three voters are known: votesCast is just above pos, and hi is
\* read from the last slot, n - 1.
C22_Witness ==
    /\ Cardinality(c[1]) = 3 /\ Cardinality(Known(c[1], l)) = 2
    /\ HiReads(3, Pos(3), 2) = {2}
    /\ cr1.Maybe < MaxUint64

\* The result r of a vote is decided.
Decided(r) == r \in {VoteWon, VoteLost}

\* C23: once the result of either majority or of the joint config is won or
\* lost, it stays what it is when voters that have not voted yet vote, yes
\* or no, the votes already cast unchanged.
C23_DecidedVoteStable ==
    [][(/\ DOMAIN votes \subseteq DOMAIN votes'
        /\ \A id \in DOMAIN votes : votes'[id] = votes[id])
       => /\ Decided(vr1) => vr1' = vr1
          /\ Decided(vr2) => vr2' = vr2
          /\ Decided(jointVote) => jointVote' = jointVote]_vars

\* Every member of a three voter majority voted no: the vote was lost with
\* the second no at the latest, and the third came after the decision; the
\* joint vote with a nonempty second majority is lost too.
C23_Witness ==
    /\ Cardinality(c[1]) = 3
    /\ \A id \in c[1] : id \in DOMAIN votes /\ ~votes[id]
    /\ vr1 = VoteLost /\ jointVote = VoteLost
    /\ c[2] # {}

\* The (index, final) version's answers for mc agree with the range cr: on
\* a nonempty config the index is Definitely and final says that the range
\* is final; on the empty config it answers (0, final) where the range is
\* (MaxUint64, MaxUint64).
OldAgrees(mc, cr) ==
    \A o \in CommittedIndexOld(mc, l, slicePool) :
        IF mc = {}
        THEN o.idx = 0 /\ o.final /\ cr = CommitRange(MaxUint64, MaxUint64)
        ELSE o.idx = cr.Definitely /\ (o.final <=> Final(cr))

\* C24: the (index, final) version of CommittedIndex agrees with the
\* CommitRange version on every nonempty config and lookup, and differs from
\* it on the empty config only.
C24_OldVersionAgrees == OldAgrees(c[1], cr1) /\ OldAgrees(c[2], cr2)

\* Two of three voters are known: a positive index that is not final yet in
\* either version.
C24_Witness ==
    /\ Cardinality(c[1]) = 3 /\ Cardinality(Known(c[1], l)) = 2
    /\ cr1.Definitely > 0 /\ ~Final(cr1)
    /\ \E o \in CommittedIndexOld(c[1], l, slicePool) : o.idx > 0 /\ ~o.final

\* C25 as stated: a compatStorage method returns the non-nil error of the
\* wrapped method, and on success the V2 conversion of the wrapped result
\* (the result itself for Entries, Term, LastIndex and FirstIndex).
C25_Original ==
    sret.meth # "none" =>
        /\ cret.meth = sret.meth
        /\ sret.err # "nil" => cret.err = sret.err
        /\ sret.err = "nil" =>
              /\ cret.err = "nil"
              /\ sret.meth = "InitialState" =>
                    /\ cret.hs = HardStateV2(sret.hs)
                    /\ cret.cs = ConfStateV2(sret.cs)
              /\ sret.meth = "Snapshot" => cret.val = SnapshotV2(sret.val)
              /\ sret.meth \in {"Entries", "Term", "LastIndex", "FirstIndex"} =>
                    cret.val = sret.val
=============================================================================
